---- MODULE Spec2Model ----
(***************************************************************************)
(* The JavaScript lexer of jasy (lib/js/Lexer.py): a hand-written scanner  *)
(* with a four-slot ring buffer of tokens, bounded pushback (unget) and    *)
(* lookahead (peek), and two mode flags set by the parser.                 *)
(*                                                                         *)
(* The source text is a sequence of one-character strings; offsets are     *)
(* Python's 0-based offsets, so input[i] is source[i + 1].  Every Python   *)
(* method is an operator from a lexer state (a record) to the lexer state  *)
(* the call leaves behind, including the state left by a call that raises. *)
(***************************************************************************)
EXTENDS Integers, Sequences, FiniteSets, TLC

VARIABLES
    source,        \* self.source
    cursor,        \* self.cursor
    line,          \* self.line
    tokens,        \* self.tokens, the ring buffer: slot 0..3 -> token
    tokenIndex,    \* self.tokenIndex
    lookahead,     \* self.lookahead
    scanNewlines,  \* self.scanNewlines
    scanOperand,   \* self.scanOperand
    ret,           \* what the last call returned
    exc,           \* what the last call raised
    op,            \* the last call: [name, arg]
    pre,           \* the lexer state before the last call
    pair,          \* the lexer state before an unget whose next call is get
    run,           \* consecutive unget calls made from lookahead = 0
    pos,           \* tokens consumed minus tokens pushed back (-1: see Covered)
    scanned        \* the tokens fresh scans have produced, in order

vars == <<source, cursor, line, tokens, tokenIndex, lookahead, scanNewlines,
          scanOperand, ret, exc, op, pre, pair, run, pos, scanned>>

----------------------------------------------------------------------------
(* Bounds of the model. *)

\* get is not called once a covered run has consumed this many tokens
MaxPos == 7

----------------------------------------------------------------------------
(* Static tables. *)

keywords ==
    { "break", "case", "catch", "const", "continue", "debugger", "default",
      "delete", "do", "else", "false", "finally", "for", "function", "if",
      "in", "instanceof", "let", "new", "null", "return", "switch", "this",
      "throw", "true", "try", "typeof", "var", "void", "yield", "while",
      "with" }

operatorNames ==
    ("<" :> "lt") @@ (">" :> "gt") @@ ("<=" :> "le") @@ (">=" :> "ge") @@
    ("!=" :> "ne") @@ ("!" :> "not") @@ ("==" :> "eq") @@
    ("===" :> "strict_eq") @@ ("!==" :> "strict_ne") @@
    (">>" :> "rsh") @@ ("<<" :> "lsh") @@ (">>>" :> "ursh") @@
    ("+" :> "plus") @@ ("*" :> "mul") @@ ("-" :> "minus") @@
    ("/" :> "div") @@ ("%" :> "mod") @@
    ("," :> "comma") @@ (";" :> "semicolon") @@ (":" :> "colon") @@
    ("=" :> "assign") @@ ("?" :> "hook") @@
    ("&&" :> "and") @@ ("||" :> "or") @@
    ("++" :> "increment") @@ ("--" :> "decrement") @@
    (")" :> "right_paren") @@ ("(" :> "left_paren") @@
    ("[" :> "left_bracket") @@ ("]" :> "right_bracket") @@
    ("{" :> "left_curly") @@ ("}" :> "right_curly") @@
    ("&" :> "bitwise_and") @@ ("^" :> "bitwise_xor") @@
    ("|" :> "bitwise_or") @@ ("~" :> "bitwise_not")

assignOperators == { "|", "^", "&", "<<", ">>", ">>>", "+", "-", "*", "/", "%" }

\* ch >= "a" and ch <= "z"
Lower == { "a", "b", "c", "d", "e", "f", "g", "h", "i", "j", "k", "l", "m",
           "n", "o", "p", "q", "r", "s", "t", "u", "v", "w", "x", "y", "z" }
\* ch >= "A" and ch <= "Z"
Upper == { "A", "B", "C", "D", "E", "F", "G", "H", "I", "J", "K", "L", "M",
           "N", "O", "P", "Q", "R", "S", "T", "U", "V", "W", "X", "Y", "Z" }
\* ch >= "0" and ch <= "9"
Digits == { "0", "1", "2", "3", "4", "5", "6", "7", "8", "9" }
\* ch >= "0" and ch <= "7"
OctDigits == { "0", "1", "2", "3", "4", "5", "6", "7" }
HexDigits == Digits \cup { "a", "b", "c", "d", "e", "f" }
                    \cup { "A", "B", "C", "D", "E", "F" }
IdentStart == Lower \cup Upper \cup { "$", "_" }
IdentPart == IdentStart \cup Digits

----------------------------------------------------------------------------
(* Values: Python's None, absent attributes, exceptions, tokens. *)

NoneVal == "<None>"          \* Python's None as a returned value
TrueVal == "<True>"
FalseVal == "<False>"
TokenVal == "<token>"        \* the returned value is self.token
NoAttr == "<unset>"          \* a string attribute that was never assigned
NoInt == -1                  \* an integer attribute that was never assigned
NoValue == [k |-> "unset", n |-> 0, t |-> ""]
NoExc == [kind |-> "", msg |-> "", line |-> 0]

\* self.tokens has no entry for the slot
EmptySlot ==
    [stored |-> FALSE, type |-> NoAttr, start |-> NoInt, end |-> NoInt,
     line |-> NoInt, value |-> NoValue, assignOp |-> NoAttr]

\* Token(): an object without attributes
NewToken == [EmptySlot EXCEPT !.stored = TRUE]

Raised(s) == s.exc.kind # ""

\* raise ParseError(msg, self.filename, self.line)
ParseError(s, msg) ==
    [s EXCEPT !.exc = [kind |-> "ParseError", msg |-> msg, line |-> s.line]]

\* an exception of Python itself (IndexError, KeyError, AttributeError,
\* NameError, SyntaxError) leaving the method
PyError(s, kind) ==
    [s EXCEPT !.exc = [kind |-> kind, msg |-> "", line |-> 0]]

SrcLen == Len(source)
\* input[i]; the callers test i < len(input) first
CharAt(i) == source[i + 1]
\* reading input[i] raises IndexError
OutOfRange(i) == i >= SrcLen
\* input[a:b]
Slice(a, b) ==
    SubSeq(source, a + 1, IF b > SrcLen THEN SrcLen ELSE b)

RECURSIVE Join(_)
\* the characters of a slice as one string
Join(cs) == IF cs = <<>> THEN "" ELSE Head(cs) \o Join(Tail(cs))

\* self.token: self.tokens.get(self.tokenIndex)
token(s) == s.tokens[s.tokenIndex]

\* token.<field> = v on the current token
SetTok(s, f, v) == [s EXCEPT !.tokens[s.tokenIndex][f] = v]

Advance(s, n) == [s EXCEPT !.cursor = @ + n]

\* while True: ch = input[cursor]; cursor += 1; if not ch in set: break
\* followed by cursor -= 1
RECURSIVE scanRun(_, _)
scanRun(s, set) ==
    IF OutOfRange(s.cursor) THEN PyError(s, "IndexError")
    ELSE IF CharAt(s.cursor) \in set THEN scanRun(Advance(s, 1), set)
    ELSE s

----------------------------------------------------------------------------
(* The skipper. *)

RECURSIVE skip(_)
RECURSIVE skipBlockComment(_)
RECURSIVE skipLineComment(_)

\* skip without the final self.cursor -= 1: the character that ends the
\* skipping is eaten
skipNoPutBack(s) ==
    IF ~(SrcLen > s.cursor) THEN s
    ELSE LET ch == CharAt(s.cursor)
             s1 == Advance(s, 1)
             next == IF SrcLen > s1.cursor THEN CharAt(s1.cursor) ELSE NoneVal
         IN  IF ch = "\n" /\ ~s.scanNewlines
             THEN skip([s1 EXCEPT !.line = @ + 1])
             ELSE IF ch = "/" /\ next = "*"
             THEN skipBlockComment(Advance(s1, 1))
             ELSE IF ch = "/" /\ next = "/"
             THEN skipLineComment(Advance(s1, 1))
             ELSE IF ch # " " /\ ch # "\t"
             THEN s1
             ELSE skip(s1)

\* the loop of a block comment: ends after the closing */, raises
\* "Unterminated comment" when the input runs out, and reads input[cursor]
\* unguarded after a "*"
skipBlockComment(s) ==
    IF OutOfRange(s.cursor) THEN ParseError(s, "Unterminated comment")
    ELSE LET ch == CharAt(s.cursor)
             s1 == Advance(s, 1)
         IN  IF ch = "*"
             THEN IF OutOfRange(s1.cursor) THEN PyError(s1, "IndexError")
                  ELSE IF CharAt(s1.cursor) = "/" THEN skip(Advance(s1, 1))
                  ELSE skipBlockComment(s1)
             ELSE IF ch = "\n"
             THEN skipBlockComment([s1 EXCEPT !.line = @ + 1])
             ELSE skipBlockComment(s1)

\* the loop of a line comment: returns from skip at the end of the input,
\* counts the newline that ends the comment and goes on skipping
skipLineComment(s) ==
    IF OutOfRange(s.cursor) THEN s
    ELSE LET ch == CharAt(s.cursor)
             s1 == Advance(s, 1)
         IN  IF ch = "\n" THEN skip([s1 EXCEPT !.line = @ + 1])
             ELSE skipLineComment(s1)

\* Eats comments and whitespace.
skip(s) ==
    IF ~(SrcLen > s.cursor) THEN s
    ELSE LET ch == CharAt(s.cursor)
             s1 == Advance(s, 1)
             next == IF SrcLen > s1.cursor THEN CharAt(s1.cursor) ELSE NoneVal
         IN  IF ch = "\n" /\ ~s.scanNewlines
             THEN skip([s1 EXCEPT !.line = @ + 1])
             ELSE IF ch = "/" /\ next = "*"
             THEN skipBlockComment(Advance(s1, 1))
             ELSE IF ch = "/" /\ next = "/"
             THEN skipLineComment(Advance(s1, 1))
             ELSE IF ch # " " /\ ch # "\t"
             THEN Advance(s1, -1)
             ELSE skip(s1)

----------------------------------------------------------------------------
(* Literal values. *)

DigitVal ==
    ("0" :> 0) @@ ("1" :> 1) @@ ("2" :> 2) @@ ("3" :> 3) @@ ("4" :> 4) @@
    ("5" :> 5) @@ ("6" :> 6) @@ ("7" :> 7) @@ ("8" :> 8) @@ ("9" :> 9)

RECURSIVE intOf(_)
\* int(segment) of a run of decimal digits
intOf(cs) ==
    IF cs = <<>> THEN 0
    ELSE 10 * intOf(SubSeq(cs, 1, Len(cs) - 1)) + DigitVal[cs[Len(cs)]]

IntValue(n) == [k |-> "int", n |-> n, t |-> ""]
\* float(segment): the literal's text stands for the float it denotes
FloatValue(cs) == [k |-> "float", n |-> 0, t |-> Join(cs)]
StrValue(str) == [k |-> "str", n |-> 0, t |-> str]

\* what Python's eval makes of the escape \c inside a quoted literal; the
\* escapes that need more characters (\x, \u, \U, \N, octal) are not
\* decoded here and are reported as "<esc>" followed by the character
Unescape(c) ==
    IF c = "n" THEN "\n"
    ELSE IF c = "t" THEN "\t"
    ELSE IF c \in { "\\", "'", "\"" } THEN c
    ELSE IF c = "\n" THEN ""
    ELSE IF c \in { "x", "u", "U", "N" } \cup OctDigits THEN "<esc>" \o c
    ELSE "\\" \o c

RECURSIVE evalBody(_)
\* the text of the body of a quoted literal, escapes decoded
evalBody(cs) ==
    IF cs = <<>> THEN ""
    ELSE IF Head(cs) = "\\" /\ Len(cs) >= 2
    THEN Unescape(cs[2]) \o evalBody(SubSeq(cs, 3, Len(cs)))
    ELSE Head(cs) \o evalBody(Tail(cs))

RECURSIVE hasRawNewline(_)
\* a line break inside the literal that no backslash precedes
hasRawNewline(cs) ==
    IF cs = <<>> THEN FALSE
    ELSE IF Head(cs) = "\\" THEN hasRawNewline(SubSeq(cs, 3, Len(cs)))
    ELSE Head(cs) = "\n" \/ hasRawNewline(Tail(cs))

----------------------------------------------------------------------------
(* The literal and operator lexers.  Each starts with the cursor one past  *)
(* the first character of the token, which get has consumed.               *)

\* Lexes the exponential part of a number, if present; ret is TrueVal if
\* an exponential part was found.
lexExponent(s) ==
    LET found(s4) == IF Raised(s4) THEN s4 ELSE [s4 EXCEPT !.ret = TrueVal]
    IN  IF OutOfRange(s.cursor) THEN PyError(s, "IndexError")
        ELSE IF CharAt(s.cursor) \notin { "e", "E" }
        THEN [s EXCEPT !.ret = FalseVal]
        ELSE LET s1 == Advance(s, 1)
             IN  IF OutOfRange(s1.cursor) THEN PyError(s1, "IndexError")
                 ELSE LET ch1 == CharAt(s1.cursor)
                          s2 == Advance(s1, 1)
                          signed == ch1 \in { "+", "-" }
                      IN  IF signed /\ OutOfRange(s2.cursor)
                          THEN PyError(s2, "IndexError")
                          ELSE LET ch == IF signed THEN CharAt(s2.cursor) ELSE ch1
                                   s3 == IF signed THEN Advance(s2, 1) ELSE s2
                               IN  IF ch \notin Digits
                                   THEN ParseError(s3, "Missing exponent")
                                   ELSE found(scanRun(s3, Digits))

lexZeroNumber(s) ==
    LET t0 == SetTok(s, "type", "number")
        \* token.value = parseFloat(...): the name is not defined
        parseFloat(s3) == IF Raised(s3) THEN s3 ELSE PyError(s3, "NameError")
        fraction(s2) == parseFloat(IF Raised(s2) THEN s2 ELSE lexExponent(s2))
        \* token.value = parseInt(...): the name is not defined
        parseInt(s2) == IF Raised(s2) THEN s2 ELSE PyError(s2, "NameError")
        zero(s2) == IF Raised(s2) THEN s2 ELSE SetTok(s2, "value", IntValue(0))
    IN  IF OutOfRange(t0.cursor) THEN PyError(t0, "IndexError")
        ELSE LET ch == CharAt(t0.cursor)
                 s1 == Advance(t0, 1)
             IN  IF ch = "." THEN fraction(scanRun(s1, Digits))
                 ELSE IF ch \in { "x", "X" } THEN parseInt(scanRun(s1, HexDigits))
                 ELSE IF ch \in OctDigits THEN parseInt(scanRun(s1, OctDigits))
                 ELSE zero(lexExponent(Advance(s1, -1)))

RECURSIVE lexNumberLoop(_, _)
\* the digit loop of lexNumber; floating is the flag of the same name and
\* the result carries it in ret
lexNumberLoop(s, floating) ==
    IF OutOfRange(s.cursor) THEN PyError(s, "IndexError")
    ELSE LET ch1 == CharAt(s.cursor)
             s1 == Advance(s, 1)
             dot == ch1 = "." /\ ~floating
         IN  IF dot /\ OutOfRange(s1.cursor) THEN PyError(s1, "IndexError")
             ELSE LET ch == IF dot THEN CharAt(s1.cursor) ELSE ch1
                      s2 == IF dot THEN Advance(s1, 1) ELSE s1
                      fl == floating \/ dot
                  IN  IF ch \in Digits THEN lexNumberLoop(s2, fl)
                      ELSE [Advance(s2, -1) EXCEPT
                               !.ret = IF fl THEN TrueVal ELSE FalseVal]

lexNumber(s) ==
    LET valued(s2, floating) ==
            IF Raised(s2) THEN s2
            ELSE IF floating \/ s2.ret = TrueVal
            THEN SetTok(s2, "value",
                        FloatValue(Slice(token(s2).start, s2.cursor)))
            ELSE SetTok(s2, "value",
                        IntValue(intOf(Slice(token(s2).start, s2.cursor))))
        exponent(s1) ==
            valued(IF Raised(s1) THEN s1 ELSE lexExponent(s1), s1.ret = TrueVal)
    IN  exponent(lexNumberLoop(SetTok(s, "type", "number"), FALSE))

lexDot(s) ==
    LET valued(s2) ==
            IF Raised(s2) THEN s2
            ELSE SetTok(SetTok(s2, "type", "number"), "value",
                        FloatValue(Slice(token(s2).start, s2.cursor)))
        exponent(s1) == valued(IF Raised(s1) THEN s1 ELSE lexExponent(s1))
    IN  IF OutOfRange(s.cursor) THEN PyError(s, "IndexError")
        ELSE IF CharAt(s.cursor) \in Digits THEN exponent(scanRun(s, Digits))
        ELSE SetTok(s, "type", "dot")

RECURSIVE lexStringLoop(_, _, _, _)
\* while ch != delim: ...; ch is the character read last
lexStringLoop(s, delim, ch, hasEscapes) ==
    IF ch = delim THEN [s EXCEPT !.ret = IF hasEscapes THEN TrueVal ELSE FalseVal]
    ELSE LET esc == ch = "\\"
             s1 == IF esc THEN Advance(s, 1) ELSE s
         IN  IF OutOfRange(s1.cursor) THEN PyError(s1, "IndexError")
             ELSE lexStringLoop(Advance(s1, 1), delim, CharAt(s1.cursor),
                                hasEscapes \/ esc)

lexString(s, delim) ==
    LET t0 == SetTok(s, "type", "string")
        valued(s1, body) ==
            IF s1.ret = TrueVal
            THEN IF hasRawNewline(body) THEN PyError(s1, "SyntaxError")
                 ELSE SetTok(s1, "value", StrValue(evalBody(body)))
            ELSE SetTok(s1, "value", StrValue(Join(body)))
        closed(s1) ==
            IF Raised(s1) THEN s1
            ELSE valued(s1, Slice(token(s1).start + 1, s1.cursor - 1))
    IN  IF OutOfRange(t0.cursor) THEN PyError(t0, "IndexError")
        ELSE closed(lexStringLoop(Advance(t0, 1), delim, CharAt(t0.cursor),
                                  FALSE))

RECURSIVE lexRegExpClass(_, _)
\* the loop of a character class; ch is the character read last
lexRegExpClass(s, ch) ==
    LET s1 == IF ch = "\\" THEN Advance(s, 1) ELSE s
    IN  IF OutOfRange(s1.cursor)
        THEN ParseError(s1, "Unterminated character class")
        ELSE IF CharAt(s1.cursor) = "]" THEN Advance(s1, 1)
        ELSE lexRegExpClass(Advance(s1, 1), CharAt(s1.cursor))

RECURSIVE lexRegExpLoop(_)
\* the loop of the pattern: ends one past the closing "/"
lexRegExpLoop(s) ==
    LET classed(s2) == IF Raised(s2) THEN s2 ELSE lexRegExpLoop(s2)
    IN  IF OutOfRange(s.cursor) THEN ParseError(s, "Unterminated regex")
        ELSE LET ch == CharAt(s.cursor)
                 s1 == Advance(s, 1)
             IN  IF ch = "\\" THEN lexRegExpLoop(Advance(s1, 1))
                 ELSE IF ch = "[" THEN classed(lexRegExpClass(s1, ch))
                 ELSE IF ch = "/" THEN s1
                 ELSE lexRegExpLoop(s1)

\* the value is eval() of the literal's text, which starts with "/": no
\* Python expression does, and eval raises SyntaxError
lexRegExp(s) ==
    LET flags(s1) == IF Raised(s1) THEN s1 ELSE scanRun(s1, Lower)
        evaluated(s2) == IF Raised(s2) THEN s2 ELSE PyError(s2, "SyntaxError")
    IN  evaluated(flags(lexRegExpLoop(SetTok(s, "type", "regexp"))))

RECURSIVE lexOpLoop(_, _)
\* extends op while op + next is an operator; the result is <<state, op>>
lexOpLoop(s, opr) ==
    IF OutOfRange(s.cursor) THEN <<PyError(s, "IndexError"), opr>>
    ELSE IF (opr \o CharAt(s.cursor)) \in DOMAIN operatorNames
    THEN lexOpLoop(Advance(s, 1), opr \o CharAt(s.cursor))
    ELSE <<s, opr>>

\* opType that never retags: "+" and "-" are binary in both modes
opTypeBinary(opr, operand) == operatorNames[opr]

\* token.type of an operator that is not a compound assignment
opType(opr, operand) ==
    IF operand /\ operatorNames[opr] = "plus" THEN "unary_plus"
    ELSE IF operand /\ operatorNames[opr] = "minus" THEN "unary_minus"
    ELSE operatorNames[opr]

lexOp(s, ch) ==
    LET named(s1, opr) ==
            IF Raised(s1) THEN s1
            ELSE IF CharAt(s1.cursor) = "=" /\ opr \in assignOperators
            THEN SetTok(SetTok(Advance(s1, 1), "type", "assign"),
                        "assignOp", operatorNames[opr])
            ELSE SetTok(SetTok(s1, "type", opType(opr, s1.scanOperand)),
                        "assignOp", NoneVal)
        extended(r) == named(r[1], r[2])
    IN  extended(lexOpLoop(s, ch))

RECURSIVE identEnd(_)
\* the offset one past the maximal run of identifier characters from i
identEnd(i) ==
    IF OutOfRange(i) THEN i
    ELSE IF CharAt(i) \in IdentPart THEN identEnd(i + 1)
    ELSE i

\* lexIdent without the cursor += 1 of its IndexError handler: an
\* identifier that ends the input loses its last character
lexIdentShort(s) ==
    LET named(s1, identifier) ==
            IF identifier \in keywords THEN SetTok(s1, "type", identifier)
            ELSE SetTok(SetTok(s1, "type", "identifier"),
                        "value", StrValue(identifier))
        ended(s1) == named(s1, Join(Slice(token(s1).start, s1.cursor)))
        stop(e) == IF OutOfRange(e) THEN e - 1 ELSE e
    IN  ended([s EXCEPT !.cursor = stop(identEnd(s.cursor))])

lexIdent(s) ==
    LET named(s1, identifier) ==
            IF identifier \in keywords THEN SetTok(s1, "type", identifier)
            ELSE SetTok(SetTok(s1, "type", "identifier"),
                        "value", StrValue(identifier))
        ended(s1) == named(s1, Join(Slice(token(s1).start, s1.cursor)))
    IN  ended([s EXCEPT !.cursor = identEnd(s.cursor)])

----------------------------------------------------------------------------
(* The ring buffer: get, unget, peek, peekOnSameLine, match, mustMatch.    *)

\* a ring of two slots
SlotOfTwo(i) == i % 2

Slot(i) == i % 4       \* i & 3

\* a replay loop that always finds a token: get never scans
getReplayNoScan(s) == [s EXCEPT !.ret = "identifier"]

\* a replay loop that returns the first buffered token whatever its type
getReplayNoSkip(s) ==
    IF s.lookahead = 0 THEN [s EXCEPT !.ret = NoneVal]
    ELSE LET s1 == [s EXCEPT !.lookahead = @ - 1,
                             !.tokenIndex = Slot(@ + 1)]
             tok == token(s1)
         IN  IF ~tok.stored THEN PyError(s1, "KeyError")
             ELSE IF tok.type = NoAttr THEN PyError(s1, "AttributeError")
             ELSE [s1 EXCEPT !.ret = tok.type]

RECURSIVE getReplay(_)
\* the loop of get over the buffered lookahead; ret is NoneVal when the
\* loop ends without returning
getReplay(s) ==
    IF s.lookahead = 0 THEN [s EXCEPT !.ret = NoneVal]
    ELSE LET s1 == [s EXCEPT !.lookahead = @ - 1,
                             !.tokenIndex = Slot(@ + 1)]
             tok == token(s1)
         IN  IF ~tok.stored THEN PyError(s1, "KeyError")
             ELSE IF tok.type = NoAttr THEN PyError(s1, "AttributeError")
             ELSE IF tok.type # "newline" \/ s1.scanNewlines
             THEN [s1 EXCEPT !.ret = tok.type]
             ELSE getReplay(s1)

\* the dispatch of get on the first character of the token
getDispatch(s, ch) ==
    IF ch \in IdentStart THEN lexIdent(s)
    ELSE IF s.scanOperand /\ ch = "/" THEN lexRegExp(s)
    ELSE IF ch = "." THEN lexDot(s)
    ELSE IF s.scanNewlines /\ ch = "\n"
    THEN [SetTok(s, "type", "newline") EXCEPT !.line = @ + 1]
    ELSE IF ch \in DOMAIN operatorNames THEN lexOp(s, ch)
    ELSE IF ch \in Digits \ { "0" } THEN lexNumber(s)
    ELSE IF ch = "0" THEN lexZeroNumber(s)
    ELSE IF ch \in { "\"", "'" } THEN lexString(s, ch)
    ELSE ParseError(s, "Illegal token")

\* the fresh scan of get: skip, allocate the token in the next slot, lex
getScan(s) ==
    LET returned(s5) ==
            [s5 EXCEPT !.ret = token(s5).type,
                       !.scanned = Append(@, token(s5))]
        lexed(s4) ==
            IF Raised(s4) THEN s4 ELSE returned(SetTok(s4, "end", s4.cursor))
        started(s3) ==
            IF OutOfRange(s3.cursor) THEN PyError(s3, "IndexError")
            ELSE lexed(getDispatch(Advance(s3, 1), CharAt(s3.cursor)))
        allocated(s2) ==
            IF s2.cursor = SrcLen
            THEN [SetTok(s2, "type", "end") EXCEPT !.ret = "end"]
            ELSE started(SetTok(SetTok(s2, "start", s2.cursor),
                                "line", s2.line))
        skipped(s1) ==
            IF Raised(s1) THEN s1
            ELSE allocated([s1 EXCEPT
                               !.tokenIndex = Slot(@ + 1),
                               !.tokens[Slot(s1.tokenIndex + 1)] = NewToken])
    IN  skipped(skip(s))

\* It consumes input *only* if there is no lookahead.
get(s) ==
    LET replayed(s1) ==
            IF Raised(s1) \/ s1.ret # NoneVal THEN s1 ELSE getScan(s1)
    IN  replayed(getReplay(s))

\* unget that leaves tokenIndex where it is
ungetNoRewind(s) ==
    LET s1 == [s EXCEPT !.lookahead = @ + 1]
    IN  IF s1.lookahead = 4 THEN ParseError(s1, "PANIC: too much lookahead!")
        ELSE [s1 EXCEPT !.ret = NoneVal]

\* unget that raises one call later
ungetLate(s) ==
    LET s1 == [s EXCEPT !.lookahead = @ + 1]
    IN  IF s1.lookahead = 5 THEN ParseError(s1, "PANIC: too much lookahead!")
        ELSE [s1 EXCEPT !.tokenIndex = Slot(@ - 1), !.ret = NoneVal]

\* unget that also moves the cursor back to the start of the token
ungetRewindsCursor(s) ==
    LET s1 == [s EXCEPT !.lookahead = @ + 1]
    IN  IF s1.lookahead = 4 THEN ParseError(s1, "PANIC: too much lookahead!")
        ELSE [s1 EXCEPT !.tokenIndex = Slot(@ - 1), !.ret = NoneVal,
                        !.cursor = IF token(s).start >= 0 THEN token(s).start
                                   ELSE @]

unget(s) ==
    LET s1 == [s EXCEPT !.lookahead = @ + 1]
    IN  IF s1.lookahead = 4 THEN ParseError(s1, "PANIC: too much lookahead!")
        ELSE [s1 EXCEPT !.tokenIndex = Slot(@ - 1), !.ret = NoneVal]

\* match that does not push the token back
matchNoUnget(s, tokenType) ==
    LET got(s1) ==
            IF Raised(s1) THEN s1
            ELSE IF s1.ret = tokenType THEN [s1 EXCEPT !.ret = TrueVal]
            ELSE [s1 EXCEPT !.ret = NoneVal]
    IN  got(get(s))

\* return self.get() == tokenType or self.unget()
match(s, tokenType) ==
    LET got(s1) ==
            IF Raised(s1) THEN s1
            ELSE IF s1.ret = tokenType THEN [s1 EXCEPT !.ret = TrueVal]
            ELSE unget(s1)
    IN  got(get(s))

\* mustMatch that returns the current token whatever match said
mustMatchNoRaise(s, tokenType) ==
    LET matched(s1) == IF Raised(s1) THEN s1 ELSE [s1 EXCEPT !.ret = TokenVal]
    IN  matched(match(s, tokenType))

mustMatch(s, tokenType) ==
    LET matched(s1) ==
            IF Raised(s1) THEN s1
            ELSE IF s1.ret # TrueVal THEN ParseError(s1, "Missing " \o tokenType)
            ELSE [s1 EXCEPT !.ret = TokenVal]
    IN  matched(match(s, tokenType))

peek(s) ==
    LET pushed(s1, s2) ==
            IF Raised(s2) THEN s2 ELSE [s2 EXCEPT !.ret = s1.ret]
        got(s1) == IF Raised(s1) THEN s1 ELSE pushed(s1, unget(s1))
    IN  IF s.lookahead # 0
        THEN LET next == s.tokens[Slot(s.tokenIndex + s.lookahead)]
             IN  IF s.scanNewlines /\ next.line # s.line
                 THEN [s EXCEPT !.ret = "newline"]
                 ELSE [s EXCEPT !.ret = IF next.type = NoAttr THEN NoneVal
                                        ELSE next.type]
        ELSE got(get(s))

peekOnSameLine(s) ==
    LET peeked(s1) ==
            IF Raised(s1) THEN s1 ELSE [s1 EXCEPT !.scanNewlines = FALSE]
    IN  peeked(peek([s EXCEPT !.scanNewlines = TRUE]))

----------------------------------------------------------------------------
(* The state machine: a parser that calls the lexer.                       *)

\* the source texts of the model
Sources ==
    { <<>>,
      <<"a", "\n", "b", " ", "c">>,
      <<"a", " ", "b", " ", "c", " ", "d", " ", "e">>,
      <<"a", " ", "#">>,
      <<"1", "e", "+", " ">>,
      <<"a", "+", " ", "1">>,
      <<"a", "/", "/", "c", "\n", "b">>,
      <<"/", "*", "\n", "*", "/", "i", "f">>,
      <<"'", "s", "'", "\n", "7", " ">> }

\* the token types the parser asks match and mustMatch for
MatchTypes == { "identifier", "newline", "end" }

\* the lexer as a record: what the methods read and write
Cur ==
    [cursor |-> cursor, line |-> line, tokens |-> tokens,
     tokenIndex |-> tokenIndex, lookahead |-> lookahead,
     scanNewlines |-> scanNewlines, scanOperand |-> scanOperand,
     ret |-> NoneVal, exc |-> NoExc, scanned |-> scanned]

\* the fields of the lexer object
Fields(s) ==
    [cursor |-> s.cursor, line |-> s.line, tokens |-> s.tokens,
     tokenIndex |-> s.tokenIndex, lookahead |-> s.lookahead,
     scanNewlines |-> s.scanNewlines, scanOperand |-> s.scanOperand]

\* Lexer.__init__: the lexer it constructs
newLexer ==
    [cursor |-> 0, tokens |-> [i \in 0..3 |-> EmptySlot], tokenIndex |-> 0,
     lookahead |-> 0, scanNewlines |-> FALSE, scanOperand |-> TRUE,
     line |-> 1, ret |-> NoneVal, exc |-> NoExc, scanned |-> <<>>]

Init ==
    /\ source \in Sources
    /\ cursor = newLexer.cursor
    /\ tokens = newLexer.tokens
    /\ tokenIndex = newLexer.tokenIndex
    /\ lookahead = newLexer.lookahead
    /\ scanNewlines = newLexer.scanNewlines
    /\ scanOperand = newLexer.scanOperand
    /\ line = newLexer.line
    /\ ret = NoneVal
    /\ exc = NoExc
    /\ scanned = <<>>
    /\ op = [name |-> "new", arg |-> ""]
    /\ pre = Fields(Cur)
    /\ pair = [on |-> FALSE, done |-> FALSE, before |-> Fields(Cur)]
    /\ run = 0
    /\ pos = 0

\* the call leaves the lexer as r
Return(name, arg, r) ==
    /\ cursor' = r.cursor
    /\ line' = r.line
    /\ tokens' = r.tokens
    /\ tokenIndex' = r.tokenIndex
    /\ lookahead' = r.lookahead
    /\ scanNewlines' = r.scanNewlines
    /\ scanOperand' = r.scanOperand
    /\ ret' = r.ret
    /\ exc' = r.exc
    /\ scanned' = r.scanned
    /\ op' = [name |-> name, arg |-> arg]
    /\ pre' = Fields(Cur)
    /\ UNCHANGED source

\* a lexical error is fatal: the parser makes no call after one
Alive == exc = NoExc

\* the run so far is one of get, peek, match and unget calls that returned,
\* under mode flags fixed before the first call, where unget pushed back
\* only consumed tokens, at most three at a time
Covered == pos >= 0

Get ==
    /\ Alive
    /\ pos < MaxPos
    /\ LET r == get(Cur)
       IN  /\ Return("get", "", r)
           /\ pos' = IF Covered /\ ~Raised(r) THEN pos + 1 ELSE -1
    /\ pair' = IF op.name = "unget" /\ exc = NoExc
               THEN [pair EXCEPT !.done = TRUE]
               ELSE [on |-> FALSE, done |-> FALSE, before |-> Fields(Cur)]
    /\ run' = 0

Unget ==
    /\ Alive
    /\ LET r == unget(Cur)
       IN  /\ Return("unget", "", r)
           /\ pos' = IF Covered /\ ~Raised(r) /\ pos >= 1 THEN pos - 1 ELSE -1
    /\ pair' = [on |-> TRUE, done |-> FALSE, before |-> Fields(Cur)]
    /\ run' = IF op.name = "unget" /\ run > 0 THEN run + 1
              ELSE IF lookahead = 0 THEN 1 ELSE 0

Peek ==
    /\ Alive
    /\ LET r == peek(Cur)
       IN  /\ Return("peek", "", r)
           /\ pos' = IF Covered /\ ~Raised(r) THEN pos ELSE -1
    /\ pair' = [on |-> FALSE, done |-> FALSE, before |-> Fields(Cur)]
    /\ run' = 0

PeekOnSameLine ==
    /\ Alive
    /\ Return("peekOnSameLine", "", peekOnSameLine(Cur))
    /\ pos' = -1
    /\ pair' = [on |-> FALSE, done |-> FALSE, before |-> Fields(Cur)]
    /\ run' = 0

Match ==
    /\ Alive
    /\ pos < MaxPos
    /\ \E tokenType \in MatchTypes :
          LET r == match(Cur, tokenType)
          IN  /\ Return("match", tokenType, r)
              /\ pos' = IF ~Covered \/ Raised(r) THEN -1
                        ELSE IF r.ret = TrueVal THEN pos + 1 ELSE pos
    /\ pair' = [on |-> FALSE, done |-> FALSE, before |-> Fields(Cur)]
    /\ run' = 0

MustMatch ==
    /\ Alive
    /\ \E tokenType \in MatchTypes :
          Return("mustMatch", tokenType, mustMatch(Cur, tokenType))
    /\ pos' = -1
    /\ pair' = [on |-> FALSE, done |-> FALSE, before |-> Fields(Cur)]
    /\ run' = 0

\* the parser sets a mode flag between calls
SetScanNewlines ==
    /\ Alive
    /\ Return("scanNewlines", "", [Cur EXCEPT !.scanNewlines = ~scanNewlines,
                                             !.ret = ret, !.exc = exc])
    /\ pos' = IF op.name \in { "new", "scanOperand" } /\ pos = 0 THEN 0 ELSE -1
    /\ pair' = [on |-> FALSE, done |-> FALSE, before |-> Fields(Cur)]
    /\ run' = 0

SetScanOperand ==
    /\ Alive
    /\ Return("scanOperand", "", [Cur EXCEPT !.scanOperand = ~scanOperand,
                                            !.ret = ret, !.exc = exc])
    /\ pos' = IF op.name \in { "new", "scanNewlines" } /\ pos = 0 THEN 0 ELSE -1
    /\ pair' = [on |-> FALSE, done |-> FALSE, before |-> Fields(Cur)]
    /\ run' = 0

Next ==
    \/ Get
    \/ Unget
    \/ Peek
    \/ PeekOnSameLine
    \/ Match
    \/ MustMatch
    \/ SetScanNewlines
    \/ SetScanOperand

Spec == Init /\ [][Next]_vars

----------------------------------------------------------------------------
(* The claims. *)

\* a lexer with the fields f, about to be called
AsState(f) ==
    [cursor |-> f.cursor, line |-> f.line, tokens |-> f.tokens,
     tokenIndex |-> f.tokenIndex, lookahead |-> f.lookahead,
     scanNewlines |-> f.scanNewlines, scanOperand |-> f.scanOperand,
     ret |-> NoneVal, exc |-> NoExc, scanned |-> <<>>]

Overflow == exc.kind = "ParseError" /\ exc.msg = "PANIC: too much lookahead!"

\* the last two calls were unget() and get(), and before them a consumed
\* token was current and fewer than three tokens were pushed back
UngetGetPair ==
    /\ op.name = "get"
    /\ pair.on /\ pair.done
    /\ pair.before.tokens[pair.before.tokenIndex].stored
    /\ pair.before.lookahead < 3

\* the pair returned the current token's type and left cursor, line,
\* lookahead and tokenIndex as they were
UngetGetNoop ==
    /\ exc = NoExc
    /\ ret = pair.before.tokens[pair.before.tokenIndex].type
    /\ cursor = pair.before.cursor
    /\ line = pair.before.line
    /\ lookahead = pair.before.lookahead
    /\ tokenIndex = pair.before.tokenIndex

\* the current token before the pair is a newline token and the lexer is
\* not in newline-sensitive mode
NewlineOutsideMode ==
    /\ pair.before.tokens[pair.before.tokenIndex].type = "newline"
    /\ ~pair.before.scanNewlines

C3_LookaheadRange == lookahead \in 0..3 /\ tokenIndex \in 0..3

\* every slot of the lookahead window holds a token a scan has produced
WindowStored(f) ==
    \A k \in 1..f.lookahead : f.tokens[Slot(f.tokenIndex + k)].stored

\* C4: the type peek() returns is the type a get() called immediately
\* afterwards returns, for every lookahead in 0..3.
C4_PeekIsNextGet ==
    (op.name = "peek" /\ exc = NoExc /\ pre.lookahead \in 0..3
        /\ WindowStored(pre))
    => LET g == get(Cur) IN Raised(g) \/ g.ret = ret

\* C5: peekOnSameLine() leaves scanNewlines as it was before the call, for
\* both prior values and also when the inner peek raises.
C5_RestoresScanNewlines ==
    op.name = "peekOnSameLine" => scanNewlines = pre.scanNewlines

\* C6: match(type) returns true and leaves the lexer as get() leaves it,
\* the matched token current, when the next token's type is type;
\* otherwise it returns a false value, raises nothing, and the next get()
\* returns the examined token's type without moving cursor or line.
C6_Match ==
    op.name = "match" =>
        LET g == get(AsState(pre))
            n == get(Cur)
        IN  IF Raised(g) THEN exc = g.exc
            ELSE IF g.ret = op.arg
            THEN /\ exc = NoExc
                 /\ ret = TrueVal
                 /\ Fields(Cur) = Fields(g)
                 /\ token(Cur).type = op.arg
            ELSE /\ exc = NoExc
                 /\ ret \in { FalseVal, NoneVal }
                 /\ ~Raised(n)
                 /\ n.ret = g.ret
                 /\ n.cursor = cursor
                 /\ n.line = line

\* C6 witness: a match() failed with three tokens pushed back.
C6_Witness ==
    /\ op.name = "match"
    /\ pre.lookahead = 3
    /\ exc = NoExc
    /\ ret = NoneVal

\* C7: mustMatch(type) raises the "Missing <type>" lexical error, with the
\* token pushed back, when the next token's type is not type; otherwise it
\* returns the current token, whose type is type.
C7_MustMatch ==
    op.name = "mustMatch" =>
        LET g == get(AsState(pre))
        IN  IF Raised(g) THEN exc = g.exc
            ELSE IF g.ret # op.arg
            THEN /\ exc = [kind |-> "ParseError",
                           msg |-> "Missing " \o op.arg, line |-> line]
                 /\ lookahead = g.lookahead + 1
                 /\ tokenIndex = Slot(g.tokenIndex - 1)
                 /\ cursor = g.cursor
            ELSE /\ exc = NoExc
                 /\ ret = TokenVal
                 /\ token(Cur).type = op.arg
                 /\ Fields(Cur) = Fields(g)

\* C7 witness: a mustMatch() has raised its error on a mismatch.
C7_Witness ==
    /\ op.name = "mustMatch"
    /\ exc.kind = "ParseError"
    /\ exc.msg = "Missing identifier"

RECURSIVE getOnly(_)
\* the lexer after k calls of get() and no other call, under the mode
\* flags of the current run
getOnly(k) ==
    IF k = 0
    THEN [newLexer EXCEPT !.scanNewlines = scanNewlines,
                          !.scanOperand = scanOperand]
    ELSE LET s == getOnly(k - 1)
         IN  IF Raised(s) THEN s ELSE get([s EXCEPT !.ret = NoneVal])

\* C8: in a run of get, peek, match and unget calls that returned, under
\* fixed mode flags, the token at logical position k (tokens consumed
\* minus tokens pushed back) is the k-th token of the run that calls only
\* get(): the same type, start and end.
C8_OrderPreserved ==
    (Covered /\ pos >= 1) =>
        LET r == getOnly(pos)
        IN  /\ ~Raised(r)
            /\ token(Cur).stored
            /\ token(Cur).type = token(r).type
            /\ token(Cur).start = token(r).start
            /\ token(Cur).end = token(r).end
            /\ (op.name = "get" => ret = token(r).type)

\* C8 witness: after three tokens were pushed back and one of them was
\* replayed, the fifth token of the source has been consumed.
C8_Witness ==
    /\ Covered
    /\ pos = 5
    /\ op.name = "get"
    /\ pre.lookahead = 1
    /\ ret = "identifier"
    /\ token(Cur).start = 8

----------------------------------------------------------------------------
(* Scanning alone: every short source text over a small alphabet, lexed by *)
(* successive calls of get() under mode flags the parser may change.       *)

\* the longest source text of SpecScan
MaxLen == 4

ScanAlphabet == { "a", " ", "\n", "/", "*", "1" }

ScanSources == UNION { [1..k -> ScanAlphabet] : k \in 0..MaxLen }

InitScan ==
    /\ source \in ScanSources
    /\ cursor = newLexer.cursor
    /\ tokens = newLexer.tokens
    /\ tokenIndex = newLexer.tokenIndex
    /\ lookahead = newLexer.lookahead
    /\ scanNewlines = newLexer.scanNewlines
    /\ scanOperand = newLexer.scanOperand
    /\ line = newLexer.line
    /\ ret = NoneVal
    /\ exc = NoExc
    /\ scanned = <<>>
    /\ op = [name |-> "new", arg |-> ""]
    /\ pre = Fields(Cur)
    /\ pair = [on |-> FALSE, done |-> FALSE, before |-> Fields(Cur)]
    /\ run = 0
    /\ pos = 0

\* a fresh scan has reached the end of the input
EndReached == \E i \in 0..3 : tokens[i].type = "end"

\* the parser sets the mode flags for the next token and calls get(), until
\* it has the end token
Scan ==
    /\ Alive
    /\ ~EndReached
    /\ \E sn \in BOOLEAN, so \in BOOLEAN :
          LET r == get([Cur EXCEPT !.scanNewlines = sn, !.scanOperand = so])
          IN  /\ Return("get", "", r)
              /\ pos' = IF Covered /\ ~Raised(r)
                           /\ (pos = 0 \/ (sn = scanNewlines /\ so = scanOperand))
                        THEN pos + 1 ELSE -1
    /\ pair' = [on |-> FALSE, done |-> FALSE, before |-> Fields(Cur)]
    /\ run' = 0

NextScan == Scan

SpecScan == InitScan /\ [][NextScan]_vars

\* the offset at which the i-th scanned token's gap starts
GapStart(i) == IF i = 1 THEN 0 ELSE scanned[i - 1].end

\* the least j in from..Len(cs) with P(j), or 0
FirstNewline(cs, from) ==
    IF \E j \in from..Len(cs) : cs[j] = "\n"
    THEN CHOOSE j \in from..Len(cs) :
            /\ cs[j] = "\n"
            /\ \A k \in from..(j - 1) : cs[k] # "\n"
    ELSE 0

FirstClose(cs, from) ==
    IF \E j \in from..(Len(cs) - 1) : cs[j] = "*" /\ cs[j + 1] = "/"
    THEN CHOOSE j \in from..(Len(cs) - 1) :
            /\ cs[j] = "*" /\ cs[j + 1] = "/"
            /\ \A k \in from..(j - 1) : ~(cs[k] = "*" /\ cs[k + 1] = "/")
    ELSE 0

RECURSIVE IsSkipped(_, _)
\* cs is made of spaces, tabs, newlines, line comments and block comments
\* only; a line comment may run to the end of cs when cs ends the input
IsSkipped(cs, final) ==
    IF cs = <<>> THEN TRUE
    ELSE IF Head(cs) \in { " ", "\t", "\n" } THEN IsSkipped(Tail(cs), final)
    ELSE IF Len(cs) >= 2 /\ cs[1] = "/" /\ cs[2] = "/"
    THEN LET j == FirstNewline(cs, 3)
         IN  IF j = 0 THEN final
             ELSE IsSkipped(SubSeq(cs, j + 1, Len(cs)), final)
    ELSE IF Len(cs) >= 2 /\ cs[1] = "/" /\ cs[2] = "*"
    THEN LET j == FirstClose(cs, 3)
         IN  IF j = 0 THEN FALSE
             ELSE IsSkipped(SubSeq(cs, j + 2, Len(cs)), final)
    ELSE FALSE

RECURSIVE Rebuilt(_)
\* the gaps and spans of the first i scanned tokens, concatenated
Rebuilt(i) ==
    IF i = 0 THEN <<>>
    ELSE Rebuilt(i - 1) \o Slice(GapStart(i), scanned[i].start)
                        \o Slice(scanned[i].start, scanned[i].end)

\* C9: once the end token is reached, the spans of the scanned tokens are
\* disjoint and increasing, every gap before, between and after them is
\* whitespace, newlines and comments only, and gaps and spans concatenate
\* to the source.
C9_SpansAndGaps ==
    EndReached =>
        LET n == Len(scanned)
            lastEnd == IF n = 0 THEN 0 ELSE scanned[n].end
        IN  /\ \A i \in 1..n :
                  /\ GapStart(i) <= scanned[i].start
                  /\ scanned[i].start < scanned[i].end
                  /\ scanned[i].end <= SrcLen
                  /\ IsSkipped(Slice(GapStart(i), scanned[i].start), FALSE)
            /\ lastEnd <= SrcLen
            /\ IsSkipped(Slice(lastEnd, SrcLen), TRUE)
            /\ Rebuilt(n) \o Slice(lastEnd, SrcLen) = source

\* C9 witness: a source in which a comment precedes a token has been
\* lexed to its end.
C9_Witness ==
    /\ EndReached
    /\ \E i \in 1..Len(scanned) :
          \E k \in (GapStart(i) + 1)..scanned[i].start : source[k] = "/"

\* start < end <= len(source), or no span for the end sentinel
SpanOk(tk) ==
    IF tk.type = "end" THEN tk.start = NoInt /\ tk.end = NoInt
    ELSE 0 <= tk.start /\ tk.start < tk.end /\ tk.end <= SrcLen

\* a get() has just scanned a token other than the end sentinel
FreshToken ==
    op.name = "get" /\ Alive /\ cursor # pre.cursor /\ ret # "end"

----------------------------------------------------------------------------
(* Literals and operators: source texts that start with a string, a        *)
(* regular expression, an operator or a number, lexed by successive calls  *)
(* of get() under mode flags the parser may change.                        *)

\* string literals: a raw line break, a continued line, an escape, none
StringSources ==
    { <<"'", "\n", "'">>,
      <<"'", "\\", "\n", "'", " ">>,
      <<"\"", "a", "\\", "n", "b", "\"">>,
      <<"\"", "a", "b", "\"", " ">>,
      <<"'", "a", "\n", "b", "'", " ", "c">> }

\* a "/" that starts a regular expression or divides
RegexSources ==
    { <<"/", "a", "b", "c", "/", "g">>,
      <<"/", "a", "b", "c", "/", "g", " ">>,
      <<"/", "a", "b", "c", "/", "g", ";">>,
      <<"/", " ", "a">>,
      <<"/", "a", " ">> }

\* operators, lone and extended
OperatorSources ==
    { <<"+", " ">>,
      <<"-", "1">>,
      <<"-", " ">>,
      <<"+", "+", " ">>,
      <<"+", "=", " ">>,
      <<"-", "-", "a">>,
      <<"-", "=", "a">>,
      <<"*", " ">>,
      <<"<", "=", " ">>,
      <<"!", "a">>,
      <<"+">>,
      <<"a", "-", "1">> }

\* numeric literals: hexadecimal, octal, zero, decimal, float, exponent
NumberSources ==
    { <<"0", "x", "1", "F", " ">>,
      <<"0", "X", "1", "f", " ">>,
      <<"0", "1", "0", " ">>,
      <<"0", " ">>,
      <<"1", "2", " ">>,
      <<"1", ".", "5", " ">>,
      <<"3", "e", "2", " ">>,
      <<"0", ".", "5", " ">>,
      <<".", "5", " ">>,
      <<"0">>,
      <<"7">> }

LitSources ==
    StringSources \cup RegexSources \cup OperatorSources \cup NumberSources

InitLit ==
    /\ source \in LitSources
    /\ cursor = newLexer.cursor
    /\ tokens = newLexer.tokens
    /\ tokenIndex = newLexer.tokenIndex
    /\ lookahead = newLexer.lookahead
    /\ scanNewlines = newLexer.scanNewlines
    /\ scanOperand = newLexer.scanOperand
    /\ line = newLexer.line
    /\ ret = NoneVal
    /\ exc = NoExc
    /\ scanned = <<>>
    /\ op = [name |-> "new", arg |-> ""]
    /\ pre = Fields(Cur)
    /\ pair = [on |-> FALSE, done |-> FALSE, before |-> Fields(Cur)]
    /\ run = 0
    /\ pos = 0

SpecLit == InitLit /\ [][NextScan]_vars

\* the number of newline characters in source[0:i]
NewlinesBefore(i) ==
    Cardinality({ k \in 1..(IF i > SrcLen THEN SrcLen ELSE i) : source[k] = "\n" })

\* the text of the current token
TokenText == Join(Slice(token(Cur).start, token(Cur).end))

\* a get() has run a fresh scan: no token was buffered
FreshScan == op.name = "get" /\ pre.lookahead = 0

\* C11: after every operation that returns normally, line is one more than
\* the number of newline characters in source[0:cursor], also when the
\* newline lies inside a string literal.
C11_LineCountsNewlines ==
    exc = NoExc => line = 1 + NewlinesBefore(cursor)

RECURSIVE SkipsOver(_, _)
\* cs is what one call of the skipper passes without stopping: spaces, tabs,
\* complete comments and, when nl, newlines; outside of comments a newline
\* stops the skipper in newline-sensitive mode
SkipsOver(cs, nl) ==
    IF cs = <<>> THEN TRUE
    ELSE IF Head(cs) \in { " ", "\t" } THEN SkipsOver(Tail(cs), nl)
    ELSE IF Head(cs) = "\n" THEN nl /\ SkipsOver(Tail(cs), nl)
    ELSE IF Len(cs) >= 2 /\ cs[1] = "/" /\ cs[2] = "/"
    THEN LET j == FirstNewline(cs, 3)
         IN  j # 0 /\ SkipsOver(SubSeq(cs, j + 1, Len(cs)), nl)
    ELSE IF Len(cs) >= 2 /\ cs[1] = "/" /\ cs[2] = "*"
    THEN LET j == FirstClose(cs, 3)
         IN  j # 0 /\ SkipsOver(SubSeq(cs, j + 2, Len(cs)), nl)
    ELSE FALSE

\* a "/*" at offset i with no "*/" after it
Unterminated(i) ==
    /\ i + 2 <= SrcLen
    /\ source[i + 1] = "/" /\ source[i + 2] = "*"
    /\ FirstClose(source, i + 3) = 0

\* the scan that started at offset c0 comes to an unterminated comment at i
ReachesUnterminated(c0, i) ==
    /\ i \in c0..SrcLen
    /\ SkipsOver(Slice(c0, i), ~scanNewlines)
    /\ Unterminated(i)

UnterminatedComment ==
    exc.kind = "ParseError" /\ exc.msg = "Unterminated comment"

\* C12: a fresh scan that comes to a "/*" with no "*/" after it fails with
\* the "Unterminated comment" lexical error, also when the last character
\* of the input is "*".
C12_UnterminatedComment ==
    (FreshScan /\ \E i \in 0..SrcLen : ReachesUnterminated(pre.cursor, i))
    => UnterminatedComment

\* C13: the line the "Unterminated comment" error carries is the line of
\* the comment's "/*", whatever the number of newlines inside the comment.
C13_ErrorLineIsStartLine ==
    (FreshScan /\ UnterminatedComment) =>
        \E i \in 0..SrcLen :
            /\ ReachesUnterminated(pre.cursor, i)
            /\ exc.line = 1 + NewlinesBefore(i)

\* C14: every failure of get, peek, peekOnSameLine, match, mustMatch or
\* unget is the structured lexical error ParseError; no other kind of
\* failure leaves the lexer.
C14_OnlyParseError == exc.kind \in { "", "ParseError" }

\* the text /abc/g
RegexText == <<"/", "a", "b", "c", "/", "g">>

\* the source starts with the text p, and no lowercase letter follows it
StartsWith(p) ==
    /\ Len(source) >= Len(p)
    /\ SubSeq(source, 1, Len(p)) = p
    /\ Len(source) > Len(p) => source[Len(p) + 1] \notin Lower

\* the current token is of type t and spans source[a:b]
Scanned(t, a, b) ==
    /\ exc = NoExc
    /\ ret = t
    /\ token(Cur).type = t
    /\ token(Cur).start = a
    /\ token(Cur).end = b

\* the first scan of a source that starts with "/"; the mode flags are
\* those under which it ran
SlashFirst ==
    FreshScan /\ pre.cursor = 0 /\ Len(scanned) <= 1
    /\ source # <<>> /\ source[1] = "/"

\* with scanOperand false, "/" before identifier-like text is a div token
\* that spans the "/" only
DivisionAtSlash ==
    (SlashFirst /\ ~scanOperand /\ Len(source) >= 2 /\ source[2] \in IdentStart)
    => Scanned("div", 0, 1)

\* C15: with scanOperand true a fresh scan at /abc/g yields one regexp
\* token that spans the whole of /abc/g; with scanOperand false a fresh
\* scan at "/" followed by identifier-like text yields a div token that
\* spans the "/" only.
C15_RegexOrDivision ==
    /\ (SlashFirst /\ scanOperand /\ StartsWith(RegexText))
       => Scanned("regexp", 0, Len(RegexText))
    /\ DivisionAtSlash

\* a fresh scan has returned a token other than the end sentinel
ScannedToken == FreshScan /\ exc = NoExc /\ cursor # pre.cursor /\ ret # "end"

----------------------------------------------------------------------------
(* A caller that calls only get(), under mode flags set before the first   *)
(* call.                                                                   *)

InitGets ==
    /\ source \in ScanSources
    /\ cursor = newLexer.cursor
    /\ tokens = newLexer.tokens
    /\ tokenIndex = newLexer.tokenIndex
    /\ lookahead = newLexer.lookahead
    /\ scanNewlines \in BOOLEAN
    /\ scanOperand \in BOOLEAN
    /\ line = newLexer.line
    /\ ret = NoneVal
    /\ exc = NoExc
    /\ scanned = <<>>
    /\ op = [name |-> "new", arg |-> ""]
    /\ pre = Fields(Cur)
    /\ pair = [on |-> FALSE, done |-> FALSE, before |-> Fields(Cur)]
    /\ run = 0
    /\ pos = 0

NextGets == Get

SpecGets == InitGets /\ [][NextGets]_vars

\* the caller has made more calls than the source has characters, and all
\* of them returned (pos counts them)
ManyCalls == Alive /\ pos > SrcLen

\* a get() called when the end token is current and nothing is pushed back
\* returns end again, with the cursor at the end of the input and the line
\* as it was
EndAgain ==
    (op.name = "get" /\ pre.lookahead = 0
        /\ pre.tokens[pre.tokenIndex].type = "end")
    => /\ exc = NoExc
       /\ ret = "end"
       /\ cursor = SrcLen
       /\ line = pre.line

\* a scan that returns a token other than end has moved the cursor forward
Progress == (FreshScan /\ Alive /\ ret # "end") => cursor > pre.cursor

\* C17: a caller that calls only get() receives the end token or an error
\* after finitely many calls, at most len(source) + 1 of them, since every
\* scan that returns a token moves the cursor forward; once get() has
\* returned end every further get() returns end with cursor = len(source)
\* and line unchanged.
C17_EndAfterFinitelyMany ==
    /\ ManyCalls => ret = "end" /\ token(Cur).type = "end"
    /\ Progress
    /\ EndAgain

\* C17 witness: after two tokens and the end token, get() has returned end
\* again.
C17_Witness ==
    /\ op.name = "get" /\ ret = "end"
    /\ pre.tokens[pre.tokenIndex].type = "end"
    /\ Len(scanned) >= 2
    /\ ManyCalls

\* the value of a digit in bases up to 16
HexVal ==
    DigitVal @@
    ("a" :> 10) @@ ("b" :> 11) @@ ("c" :> 12) @@ ("d" :> 13) @@ ("e" :> 14) @@
    ("f" :> 15) @@ ("A" :> 10) @@ ("B" :> 11) @@ ("C" :> 12) @@ ("D" :> 13) @@
    ("E" :> 14) @@ ("F" :> 15)

RECURSIVE BaseVal(_, _)
\* the number the digits cs denote in base b
BaseVal(cs, b) ==
    IF cs = <<>> THEN 0
    ELSE b * BaseVal(SubSeq(cs, 1, Len(cs) - 1), b) + HexVal[cs[Len(cs)]]

AllIn(cs, set) == \A k \in 1..Len(cs) : cs[k] \in set

IsHex(cs) ==
    Len(cs) >= 3 /\ cs[1] = "0" /\ cs[2] \in { "x", "X" }
    /\ AllIn(SubSeq(cs, 3, Len(cs)), HexDigits)

IsOctal(cs) == Len(cs) >= 2 /\ cs[1] = "0" /\ AllIn(Tail(cs), OctDigits)

IsDecimal(cs) ==
    Len(cs) >= 1 /\ AllIn(cs, Digits) /\ (cs[1] # "0" \/ Len(cs) = 1)

\* digits, a "." and digits, with digits on one side of the "." at least
IsFraction(cs) ==
    \E d \in 1..Len(cs) :
        /\ cs[d] = "."
        /\ Len(cs) >= 2
        /\ AllIn(SubSeq(cs, 1, d - 1), Digits)
        /\ AllIn(SubSeq(cs, d + 1, Len(cs)), Digits)
        /\ IsDecimal(SubSeq(cs, 1, d - 1)) \/ d = 1

\* the value of an integer literal of JavaScript
JsIntValue(cs) ==
    IF IsHex(cs) THEN BaseVal(SubSeq(cs, 3, Len(cs)), 16)
    ELSE IF IsOctal(cs) THEN BaseVal(Tail(cs), 8)
    ELSE BaseVal(cs, 10)

\* the source without the space that ends it
Literal ==
    IF source # <<>> /\ source[Len(source)] = " "
    THEN SubSeq(source, 1, Len(source) - 1)
    ELSE source

FirstScan == FreshScan /\ pre.cursor = 0 /\ Len(scanned) <= 1

\* a decimal integer literal that a character follows is a number token
\* with the value of its digits
DecimalValue ==
    (FirstScan /\ IsDecimal(Literal) /\ Literal # source)
    => /\ Scanned("number", 0, Len(Literal))
       /\ token(Cur).value = IntValue(JsIntValue(Literal))

\* C18: a fresh scan of a numeric literal yields one number token that
\* spans the literal; its value is that of the digits in base 16 after
\* 0x or 0X, in base 8 after a leading 0, in base 10 otherwise, and a bare
\* 0 has the value 0.
C18_NumberValue ==
    /\ (FirstScan /\ (IsHex(Literal) \/ IsOctal(Literal) \/ IsDecimal(Literal)))
       => /\ Scanned("number", 0, Len(Literal))
          /\ token(Cur).value = IntValue(JsIntValue(Literal))
    /\ (FirstScan /\ IsFraction(Literal))
       => /\ Scanned("number", 0, Len(Literal))
          /\ token(Cur).value = FloatValue(Literal)

\* a get() in newline-sensitive mode has passed no newline character but
\* the one it returns as a newline token
NewlinePassedIsToken ==
    (FreshScan /\ Alive /\ scanNewlines)
    => \A k \in (pre.cursor + 1)..cursor :
          source[k] = "\n" => ret = "newline" /\ k = cursor

\* the token peekOnSameLine() looked at, when nothing was pushed back
\* before the call
Peeked == tokens[Slot(tokenIndex + 1)]

\* peekOnSameLine() returns newline when a newline character lies between
\* the current token and the next one
PeekSeesNewline ==
    (op.name = "peekOnSameLine" /\ exc = NoExc /\ pre.lookahead = 0
        /\ lookahead = 1)
    => LET nextStart == IF Peeked.type = "end" THEN SrcLen ELSE Peeked.start
       IN  (\E k \in (pre.cursor + 1)..nextStart : source[k] = "\n")
           => ret = "newline"

\* C19: while scanNewlines is set, a fresh get() moves the cursor past no
\* newline character without returning a newline token for it, also when
\* the newline ends a line comment or lies inside a block comment, and
\* peekOnSameLine() returns newline whenever a newline character lies
\* between the current token and the next one.
C19_NewlinesSurfaced == NewlinePassedIsToken /\ PeekSeesNewline

\* a get() was called with tokens pushed back
ReplayCall == op.name = "get" /\ pre.lookahead > 0

\* the j-th token of the lookahead window before the call
Buffered(j) == pre.tokens[Slot(pre.tokenIndex + j)]

\* get() steps over the j-th buffered token: a newline token outside
\* newline-sensitive mode
SteppedOver(j) == Buffered(j).type = "newline" /\ ~pre.scanNewlines

\* the place in the window of the first token get() does not step over,
\* or 0 if it steps over all of them
FirstKept ==
    IF \A j \in 1..pre.lookahead : SteppedOver(j) THEN 0
    ELSE CHOOSE j \in 1..pre.lookahead :
            /\ ~SteppedOver(j)
            /\ \A i \in 1..(j - 1) : SteppedOver(i)

\* cursor, line and the four slots are as before the call
NothingConsumed ==
    cursor = pre.cursor /\ line = pre.line /\ tokens = pre.tokens

----------------------------------------------------------------------------
(* The cursor, the token accessor and the lookahead window.                *)

\* the operations that may scan
Scanners == { "get", "peek", "peekOnSameLine", "match", "mustMatch" }

\* C21: across every get, peek, peekOnSameLine, match and mustMatch call
\* that returns normally the cursor does not decrease and stays within
\* 0..len(source); unget changes neither cursor nor line.
C21_CursorMonotone ==
    /\ (op.name \in Scanners /\ exc = NoExc)
       => pre.cursor <= cursor /\ cursor <= SrcLen
    /\ op.name = "unget" => cursor = pre.cursor /\ line = pre.line

\* C21 witness: a match() that failed has scanned a token and pushed it
\* back: the cursor has moved forward.
C21_Witness ==
    /\ op.name = "match" /\ exc = NoExc /\ ret = NoneVal
    /\ cursor > pre.cursor
    /\ lookahead = 1

----------------------------------------------------------------------------
(* Operators: every short source text over operator characters and a       *)
(* letter, lexed by successive calls of get().                             *)

\* the longest source text of SpecOps
MaxOpLen == 4

OpAlphabet == { "=", ">", "+", "&", "!", "a" }

OpSources == UNION { [1..k -> OpAlphabet] : k \in 0..MaxOpLen }

InitOps ==
    /\ source \in OpSources
    /\ cursor = newLexer.cursor
    /\ tokens = newLexer.tokens
    /\ tokenIndex = newLexer.tokenIndex
    /\ lookahead = newLexer.lookahead
    /\ scanNewlines = newLexer.scanNewlines
    /\ scanOperand = newLexer.scanOperand
    /\ line = newLexer.line
    /\ ret = NoneVal
    /\ exc = NoExc
    /\ scanned = <<>>
    /\ op = [name |-> "new", arg |-> ""]
    /\ pre = Fields(Cur)
    /\ pair = [on |-> FALSE, done |-> FALSE, before |-> Fields(Cur)]
    /\ run = 0
    /\ pos = 0

SpecOps == InitOps /\ [][NextScan]_vars

\* the operators of one character
OpChars ==
    { "<", ">", "!", "=", "+", "*", "-", "/", "%", ",", ";", ":", "?", ")",
      "(", "[", "]", "{", "}", "&", "^", "|", "~" }

\* every registered operator is one character, or a registered operator
\* and one more character: every prefix of it is registered
PrefixClosed ==
    /\ OpChars \subseteq DOMAIN operatorNames
    /\ \A o \in DOMAIN operatorNames :
          \/ o \in OpChars
          \/ \E p \in DOMAIN operatorNames, c \in OpChars : o = p \o c

\* the text source[i:i+k]
TextAt(i, k) == Join(Slice(i, i + k))

\* the length of the longest registered operator that source[i:] starts
\* with
LongestOp(i) ==
    CHOOSE k \in 0..(SrcLen - i) :
        /\ k = 0 \/ TextAt(i, k) \in DOMAIN operatorNames
        /\ \A m \in (k + 1)..(SrcLen - i) :
              TextAt(i, m) \notin DOMAIN operatorNames

\* a fresh scan has started on an operator character that lexOp gets
OpScan ==
    /\ FreshScan
    /\ pre.cursor < SrcLen
    /\ CharAt(pre.cursor) \in OpChars
    /\ ~(scanOperand /\ CharAt(pre.cursor) = "/")

\* the token the reference rule gives for the operator at offset i
IsReferenceToken(i) ==
    LET n == LongestOp(i)
        L == TextAt(i, n)
    IN  IF i + n < SrcLen /\ CharAt(i + n) = "=" /\ L \in assignOperators
        THEN /\ Scanned("assign", i, i + n + 1)
             /\ token(Cur).assignOp = operatorNames[L]
        ELSE /\ Scanned(opType(L, scanOperand), i, i + n)
             /\ token(Cur).assignOp = NoneVal

\* the rule for the operators that do not end the input
LongestMatchInside ==
    (OpScan /\ pre.cursor + LongestOp(pre.cursor) < SrcLen)
    => IsReferenceToken(pre.cursor)

\* C22: the operator table is prefix-closed, and for every input that
\* starts with an operator character lexOp takes the longest registered
\* operator L the input starts with; the token is assign with assignOp the
\* tag of L and span L plus "=" if "=" follows L and L is one of
\* | ^ & << >> >>> + - * / %, and has the tag of L, assignOp None and span
\* L otherwise.
C22_LongestMatch ==
    /\ PrefixClosed
    /\ OpScan => IsReferenceToken(pre.cursor)

----------------------------------------------------------------------------
(* Regular expressions: every short source text that starts with "/",      *)
(* over the characters that matter to lexRegExp.                           *)

\* the longest text after the opening "/" in SpecRegex
MaxReLen == 5

ReAlphabet == { "/", "\\", "[", "]", "g", ";" }

ReSources ==
    { <<"/">> \o t : t \in UNION { [1..k -> ReAlphabet] : k \in 0..MaxReLen } }

InitRegex ==
    /\ source \in ReSources
    /\ cursor = newLexer.cursor
    /\ tokens = newLexer.tokens
    /\ tokenIndex = newLexer.tokenIndex
    /\ lookahead = newLexer.lookahead
    /\ scanNewlines = newLexer.scanNewlines
    /\ scanOperand = newLexer.scanOperand
    /\ line = newLexer.line
    /\ ret = NoneVal
    /\ exc = NoExc
    /\ scanned = <<>>
    /\ op = [name |-> "new", arg |-> ""]
    /\ pre = Fields(Cur)
    /\ pair = [on |-> FALSE, done |-> FALSE, before |-> Fields(Cur)]
    /\ run = 0
    /\ pos = 0

SpecRegex == InitRegex /\ [][NextScan]_vars

RECURSIVE BodyEnd(_, _)
\* the rule of the claim from offset j of the pattern, inside a character
\* class or not: the offset one past the closing "/", or -1 if the input
\* runs out outside a class and -2 if it runs out inside one
BodyEnd(j, inClass) ==
    IF j >= SrcLen THEN (IF inClass THEN -2 ELSE -1)
    ELSE IF CharAt(j) = "\\" THEN BodyEnd(j + 2, inClass)
    ELSE IF inClass
    THEN BodyEnd(j + 1, CharAt(j) # "]")
    ELSE IF CharAt(j) = "[" THEN BodyEnd(j + 1, TRUE)
    ELSE IF CharAt(j) = "/" THEN j + 1
    ELSE BodyEnd(j + 1, FALSE)

RECURSIVE FlagsEnd(_)
\* the offset one past the maximal run of lowercase letters from j
FlagsEnd(j) ==
    IF j < SrcLen /\ CharAt(j) \in Lower THEN FlagsEnd(j + 1) ELSE j

\* a fresh scan under scanOperand has started on a "/" that does not start
\* a comment
RegexScan ==
    /\ FreshScan
    /\ scanOperand
    /\ pre.cursor < SrcLen
    /\ CharAt(pre.cursor) = "/"
    /\ pre.cursor + 1 < SrcLen => CharAt(pre.cursor + 1) \notin { "/", "*" }

LexicalError(msg) == exc.kind = "ParseError" /\ exc.msg = msg

\* input that runs out before the closing "/" raises "Unterminated regex",
\* inside a character class "Unterminated character class", and no scan of
\* a terminated literal raises either
UnterminatedRegex ==
    RegexScan =>
        LET e == BodyEnd(pre.cursor + 1, FALSE)
        IN  /\ e = -1 <=> LexicalError("Unterminated regex")
            /\ e = -2 <=> LexicalError("Unterminated character class")

\* lexRegExp has moved the cursor to the end of the literal by the rule
\* before it fails in eval
RegexExtent ==
    (RegexScan /\ exc.kind = "SyntaxError")
    => /\ BodyEnd(pre.cursor + 1, FALSE) >= 0
       /\ cursor = FlagsEnd(BodyEnd(pre.cursor + 1, FALSE))

\* C23: a regular expression token ends at the first unescaped "/" outside
\* a character class plus the maximal run of lowercase letters after it; a
\* backslash keeps the next character from ending the literal or a class;
\* input that runs out before the closing "/" raises "Unterminated regex",
\* inside a character class "Unterminated character class".
C23_RegexScanning ==
    RegexScan =>
        LET e == BodyEnd(pre.cursor + 1, FALSE)
        IN  IF e = -1 THEN LexicalError("Unterminated regex")
            ELSE IF e = -2 THEN LexicalError("Unterminated character class")
            ELSE Scanned("regexp", pre.cursor, FlagsEnd(e))

----------------------------------------------------------------------------
(* The token accessor. *)

\* the token accessor refers to the token it referred to before the call
SameToken ==
    /\ tokenIndex = pre.tokenIndex
    /\ token(Cur) = pre.tokens[pre.tokenIndex]

\* after get() returns a type, the current token has that type
TokenAfterGet ==
    (op.name = "get" /\ exc = NoExc)
    => token(Cur).stored /\ token(Cur).type = ret

\* peek() and peekOnSameLine() leave the current token as it was
PeekKeepsToken ==
    (op.name \in { "peek", "peekOnSameLine" } /\ exc = NoExc) => SameToken

FailedMatch ==
    /\ op.name = "match"
    /\ exc = NoExc
    /\ ret # TrueVal
    /\ WindowStored(pre)

\* the replay of the failed match() stepped over a buffered newline token
ReplaySkippedNewline ==
    /\ ~pre.scanNewlines
    /\ pre.lookahead > 0
    /\ pre.tokens[Slot(pre.tokenIndex + 1)].type = "newline"

\* a failed match() that steps over no buffered newline token leaves the
\* current token as it was
FailedMatchKeepsToken ==
    (FailedMatch /\ ~ReplaySkippedNewline) => SameToken

\* C24: after get() returns type T the current token has type T; peek(),
\* peekOnSameLine() and a failed match() leave tokenIndex and the current
\* token as they were before the call, for every lookahead in 0..3 and also
\* when the replay steps over buffered newline tokens.
C24_TokenAccessor ==
    /\ TokenAfterGet
    /\ PeekKeepsToken
    /\ FailedMatch => SameToken

----------------------------------------------------------------------------
(* The lookahead window. *)

\* a scan has stored the token and run to its end: the type is set, and
\* start, line and end are set unless it is the end token
Populated(t) ==
    /\ t.stored
    /\ t.type # NoAttr
    /\ t.type # "end" => t.start # NoInt /\ t.line # NoInt /\ t.end # NoInt

WindowPopulated ==
    \A k \in 1..lookahead : Populated(tokens[Slot(tokenIndex + k)])

\* get() replaying from the window reads no empty slot
ReplayReadsStored ==
    (op.name = "get" /\ pre.lookahead > 0) => exc.kind # "KeyError"

\* while unget() has pushed back only tokens that were consumed, every slot
\* of the window holds a populated token
WindowOfConsumed == Covered => WindowPopulated

\* C25: in every reachable state each of the slots tokenIndex+1 ..
\* tokenIndex+lookahead holds a fully populated token produced by an
\* earlier scan, and a get() replaying from the window reads no empty
\* slot, also after unget() on a fresh Lexer or after more unget() calls
\* than tokens were produced.
C25_WindowValid == WindowPopulated /\ ReplayReadsStored

----------------------------------------------------------------------------
(* peekOnSameLine() with and without the next token buffered. *)

\* a peek() made with nothing pushed back and scanNewlines false has
\* buffered the next token
PeekBuffered ==
    /\ op.name = "peek"
    /\ exc = NoExc
    /\ pre.lookahead = 0
    /\ ~pre.scanNewlines
    /\ lookahead = 1

\* what peekOnSameLine() returns if called instead of that peek()
Unbuffered == peekOnSameLine(AsState(pre))

\* what peekOnSameLine() returns if called after that peek()
AfterPeek == peekOnSameLine(Cur)

\* a newline lies between the offset where the peek() started and the
\* token it buffered
LineBreakBefore ==
    \E i \in pre.cursor .. Peeked.start - 1 : CharAt(i) = "\n"

\* on a token that is not the end token and has no newline before it, the
\* two calls agree
SameLineAgree ==
    (PeekBuffered /\ Peeked.type # "end" /\ ~LineBreakBefore
        /\ ~Raised(Unbuffered))
    => ~Raised(AfterPeek) /\ AfterPeek.ret = Unbuffered.ret

\* C26: for the same source and the same consumed-token position,
\* peekOnSameLine() returns the same value whether or not an earlier peek()
\* made with scanNewlines false has buffered the next token.
C26_PeekOnSameLineDeterministic ==
    (PeekBuffered /\ ~Raised(Unbuffered))
    => ~Raised(AfterPeek) /\ AfterPeek.ret = Unbuffered.ret

====
